---- MODULE Spec2Model ----
(***************************************************************************)
(* Model of the Dynatrace vulnerability report generator:                  *)
(*   - the API client (src/src/api/dynatrace_api.py): query_api, the two   *)
(*     pagination loops, the enrichment loop and the memoized detail call; *)
(*   - the aggregation model (src/src/models/report_data.py);              *)
(*   - the PDF renderer (src/src/generators/pdf_generator.py);             *)
(*   - the orchestrator (src/main.py).                                     *)
(* Each component has its own specification over the shared variables; a   *)
(* specification leaves the variables of the other components untouched.   *)
(***************************************************************************)
EXTENDS Integers, Sequences, FiniteSets, TLC

VARIABLES
    \* ---- API client ----
    pc,                       \* position of the running client operation
    op,                       \* the operation under way
    response,                 \* the local `response` of a pagination loop
    security_problems,        \* the accumulator of a pagination loop
    vulnerabilities,          \* the list the pagination loop returned
    enriched_vulnerabilities, \* the accumulator of the enrichment loop
    requests,                 \* every HTTP GET issued so far, in order
    responses,                \* every HTTP response received so far, in order
    outcome,                  \* what the last finished call gave its caller
    cache,                    \* the lru_cache of get_security_problem_details
    calls,                    \* finished get_security_problem_details calls
    \* ---- aggregation model ----
    report,                   \* the ReportData object being rendered
    rpc,                      \* position in the evaluation of its views
    severity_stats,           \* report.overall_severity_stats, once read
    new_vulnerabilities_view, \* report.new_vulnerabilities, once read
    process_groups,           \* report.process_group_aggregations, once read
    hosts,                    \* report.host_aggregations, once read
    \* ---- orchestrator and renderers ----
    mpc,                      \* position of main()
    args,                     \* the parsed command line
    management_zones,         \* the zones get_management_zones returned
    zi,                       \* index of the zone the for loop is at
    fetched,                  \* per zone: the number of vulnerabilities fetched
    fs,                       \* the paths that exist in the file system
    now,                      \* the wall clock, in seconds
    timestamp,                \* the local `timestamp` of the loop body
    pending,                  \* exception in flight inside PdfReportGenerator
    error,                    \* the exception main() caught and logged
    events                    \* what main() did, in order

apiVars == <<pc, op, response, security_problems, vulnerabilities,
             enriched_vulnerabilities, requests, responses, outcome, cache,
             calls>>

aggVars == <<report, rpc, severity_stats, new_vulnerabilities_view,
             process_groups, hosts>>

mainVars == <<mpc, args, management_zones, zi, fetched, fs, now, timestamp,
              pending, error, events>>

vars == <<apiVars, aggVars, mainVars>>

(***************************************************************************)
(* Bounds of the model.                                                    *)
(***************************************************************************)
MaxPages == 3        \* HTTP responses one pagination loop may receive
MaxCalls == 3        \* direct calls of get_security_problem_details
MaxVulns == 2        \* vulnerabilities in one ReportData
MaxZones == 2        \* management zones of the environment
MaxClock == 1
MaxItems == 2        \* seconds that pass during a run

(***************************************************************************)
(* HTTP: what the server may answer.                                       *)
(***************************************************************************)
Instances == {"dt_api", "other_api"}
ProblemIds == {"P1", "P2"}
PageKeys == {"K1", "K2"}
OK == 200
StatusCodes == {200, 204, 500}
Bodies == {"body1", "body2"}

Reason(status) ==
    CASE status = 200 -> "OK"
      [] status = 204 -> "No Content"
      [] OTHER -> "Internal Server Error"

ListKey(o) == IF o = "entities" THEN "entities" ELSE "securityProblems"
ListPath(o) == IF o = "entities" THEN "/api/v2/entities"
                                 ELSE "/api/v2/securityProblems"

\* A summary record of the list endpoint, an entity record and the detail
\* record of the detail endpoint (`version` tells two fetches apart).
Summary(id) == [securityProblemId |-> id, kind |-> "summary"]
Detail(id, v) == [securityProblemId |-> id, kind |-> "detail", version |-> v]

PageItems ==
    {<<>>} \cup {<<Summary(i)>> : i \in ProblemIds}
           \cup {<<Summary(i), Summary(j)>> : i \in {"P1"}, j \in ProblemIds}

\* The parsed JSON bodies of a list endpoint: the item list and the cursor
\* are each present or absent.
ListJsons(o) ==
    LET base == ("totalCount" :> 0)
        withItems == {base @@ (ListKey(o) :> items) : items \in PageItems}
        bodies == withItems \cup {base}
    IN  bodies \cup {b @@ ("nextPageKey" :> k) : b \in bodies, k \in PageKeys}

DetailJsons(id) == {Detail(id, v) : v \in {1, 2}}

HttpResponse(status, content, json) ==
    [status |-> status, reason |-> Reason(status), content |-> content,
     json |-> json]

NoJson == ("totalCount" :> 0)

FailedResponses ==
    {HttpResponse(s, c, NoJson) : s \in StatusCodes \ {OK}, c \in Bodies}

ListResponses(o) ==
    {HttpResponse(OK, "body1", j) : j \in ListJsons(o)} \cup FailedResponses

DetailResponses(id) ==
    {HttpResponse(OK, "body1", j) : j \in DetailJsons(id)} \cup FailedResponses

(***************************************************************************)
(* Endpoints.                                                              *)
(***************************************************************************)
FirstEndpoint(o) == [path |-> ListPath(o), nextPageKey |-> "-", id |-> "-"]
\* The follow-up request asks for the first page again.
NextEndpoint_first(o, key) ==
    [path |-> ListPath(o), nextPageKey |-> "-", id |-> "-"]

NextEndpoint(o, key) == [path |-> ListPath(o), nextPageKey |-> key, id |-> "-"]
DetailEndpoint(id) ==
    [path |-> "/api/v2/securityProblems", nextPageKey |-> "-", id |-> id]

(***************************************************************************)
(* query_api: the value returned, or the RuntimeError raised.              *)
(***************************************************************************)
Returned(value) == [kind |-> "returned", value |-> value]
RuntimeError(resp) ==
    [kind |-> "raised", status |-> resp.status, reason |-> resp.reason,
     content |-> resp.content]
NoOutcome == [kind |-> "none"]

query_api_unchecked(resp) == Returned(resp.json)

\* Any success status of the 2xx class is parsed and returned.
query_api_non2xx(resp) ==
    IF resp.status \notin 200..299
    THEN RuntimeError(resp)
    ELSE Returned(resp.json)

query_api(resp) ==
    IF resp.status # 200 THEN RuntimeError(resp) ELSE Returned(resp.json)

\* dict.get(key, [])
Get(json, key) == IF key \in DOMAIN json THEN json[key] ELSE <<>>

(***************************************************************************)
(* The API client.  `dt_api` is the instance main() creates; one client    *)
(* operation runs at a time (the program is single-threaded).              *)
(***************************************************************************)
dt_api == "dt_api"
Operations == {"problems", "entities", "zone"}
NoResponse == ("none" :> 0)
EmptyCache == <<>>

InitApi ==
    /\ pc = "idle"
    /\ op = "none"
    /\ response = NoResponse
    /\ security_problems = <<>>
    /\ vulnerabilities = <<>>
    /\ enriched_vulnerabilities = <<>>
    /\ requests = <<>>
    /\ responses = <<>>
    /\ outcome = NoOutcome
    /\ cache = EmptyCache
    /\ calls = <<>>

NoReport == [start_time |-> 0, vulnerabilities |-> <<>>]
NoStats == [critical |-> 0, high |-> 0, medium |-> 0, low |-> 0]

IdleAgg ==
    /\ report = NoReport
    /\ rpc = "idle"
    /\ severity_stats = NoStats
    /\ new_vulnerabilities_view = <<>>
    /\ process_groups = <<>>
    /\ hosts = <<>>

NoArgs == [html_only |-> FALSE, pdf_only |-> FALSE]

IdleMain ==
    /\ mpc = "idle"
    /\ args = NoArgs
    /\ management_zones = <<>>
    /\ zi = 0
    /\ fetched = <<>>
    /\ fs = {}
    /\ now = 0
    /\ timestamp = 0
    /\ pending = "none"
    /\ error = "none"
    /\ events = <<>>

\* requests.get: one GET on the wire and the response it receives.
HttpGet(inst, endpoint, resp) ==
    /\ requests' = Append(requests, [self |-> inst, endpoint |-> endpoint])
    /\ responses' = Append(responses, resp)

\* An exception leaves the operation: its frames and locals are gone and
\* the caller holds the error alone.
Raise(err) ==
    /\ pc' = "raised"
    /\ outcome' = err
    /\ response' = NoResponse
    /\ security_problems' = <<>>
    /\ vulnerabilities' = <<>>
    /\ enriched_vulnerabilities' = <<>>

\* list.extend (lines 127, 132, 211, 216).
Extend_prepend(list, items) == items \o list

Extend(list, items) == list \o items

\* What a round of a pagination loop does with the response it received:
\* query_api raises, or the page becomes `response` and its items are
\* added to the list.
PageResult(o, resp) ==
    LET r == query_api(resp)
    IN  IF r.kind = "raised"
        THEN Raise(r)
        ELSE /\ pc' = "paging"
             /\ response' = r.value
             /\ security_problems' =
                    Extend(security_problems, Get(r.value, ListKey(o)))
             /\ UNCHANGED <<outcome, vulnerabilities,
                            enriched_vulnerabilities>>

\* One round of a pagination loop: query_api(endpoint), then extend().
PageStep(o, endpoint, resp) ==
    /\ HttpGet(dt_api, endpoint, resp)
    /\ PageResult(o, resp)

\* _query_all_security_problems / _get_all_entities up to the first
\* response (lines 125-127, 209-211).
FirstPage(o) ==
    /\ pc = "idle"
    /\ op' = o
    /\ \E resp \in ListResponses(o) : PageStep(o, FirstEndpoint(o), resp)
    /\ UNCHANGED <<cache, calls, aggVars, mainVars>>

\* One iteration of `while "nextPageKey" in response` (lines 129-132,
\* 213-216).
NextPage ==
    /\ pc = "paging"
    /\ "nextPageKey" \in DOMAIN response
    /\ Len(responses) < MaxPages
    /\ \E resp \in ListResponses(op) :
           PageStep(op, NextEndpoint(op, response["nextPageKey"]), resp)
    /\ UNCHANGED <<op, cache, calls, aggVars, mainVars>>

\* The loop exits and the list is returned (lines 134, 218); in
\* get_vulnerabilities_by_management_zone it becomes `vulnerabilities`.
ReturnList ==
    /\ pc = "paging"
    /\ "nextPageKey" \notin DOMAIN response
    /\ IF op = "zone"
       THEN /\ pc' = "enrich"
            /\ vulnerabilities' = security_problems
            /\ UNCHANGED outcome
       ELSE /\ pc' = "done"
            /\ outcome' = Returned(security_problems)
            /\ UNCHANGED vulnerabilities
    /\ UNCHANGED <<op, response, security_problems, enriched_vulnerabilities,
                   requests, responses, cache, calls, aggVars, mainVars>>

\* get_security_problem_details under @lru_cache(maxsize=None): the cache
\* key is the argument tuple (self, security_problem_id); a call that
\* raises stores nothing.
CacheKey_shared(inst, id) == <<dt_api, id>>

CacheKey(inst, id) == <<inst, id>>

\* Without the cache decorator every call goes to the server.
get_security_problem_details_uncached(c, inst, id, resp) ==
    [result |-> query_api(resp), cache |-> c, fetched |-> TRUE]

get_security_problem_details(c, inst, id, resp) ==
    IF CacheKey(inst, id) \in DOMAIN c
    THEN [result |-> Returned(c[CacheKey(inst, id)]), cache |-> c,
          fetched |-> FALSE]
    ELSE LET r == query_api(resp)
         IN  [result |-> r,
              cache |-> IF r.kind = "returned"
                        THEN c @@ (CacheKey(inst, id) :> r.value)
                        ELSE c,
              fetched |-> TRUE]

\* The responses the server may give to a detail call; none is needed when
\* the call is served from the cache.
DetailChoices(c, inst, id) ==
    IF CacheKey(inst, id) \in DOMAIN c
    THEN {HttpResponse(OK, "body1", Detail(id, 1))}
    ELSE DetailResponses(id)

\* One iteration of the enrichment loop (lines 108-111).
Enrich ==
    /\ pc = "enrich"
    /\ Len(enriched_vulnerabilities) < Len(vulnerabilities)
    /\ LET vuln == vulnerabilities[Len(enriched_vulnerabilities) + 1]
           vuln_id == vuln.securityProblemId
       IN  \E resp \in DetailChoices(cache, dt_api, vuln_id) :
             LET d == get_security_problem_details(cache, dt_api, vuln_id, resp)
             IN  /\ IF d.fetched
                    THEN HttpGet(dt_api, DetailEndpoint(vuln_id), resp)
                    ELSE UNCHANGED <<requests, responses>>
                 /\ cache' = d.cache
                 /\ IF d.result.kind = "raised"
                    THEN Raise(d.result)
                    ELSE /\ enriched_vulnerabilities' =
                               Append(enriched_vulnerabilities, d.result.value)
                         /\ UNCHANGED <<pc, outcome, response,
                                        security_problems, vulnerabilities>>
    /\ UNCHANGED <<op, calls, aggVars, mainVars>>

\* return enriched_vulnerabilities (line 113).
ReturnEnriched ==
    /\ pc = "enrich"
    /\ Len(enriched_vulnerabilities) = Len(vulnerabilities)
    /\ pc' = "done"
    /\ outcome' = Returned(enriched_vulnerabilities)
    /\ UNCHANGED <<op, response, security_problems, vulnerabilities,
                   enriched_vulnerabilities, requests, responses, cache,
                   calls, aggVars, mainVars>>

NextApi ==
    \/ \E o \in Operations : FirstPage(o)
    \/ NextPage
    \/ ReturnList
    \/ Enrich
    \/ ReturnEnriched

InitClient == InitApi /\ IdleAgg /\ IdleMain

SpecApi == InitClient /\ [][NextApi]_vars

(***************************************************************************)
(* The pagination loop on its own, run for as many rounds as the server    *)
(* keeps sending a nextPageKey.  The wire is observed through a window of  *)
(* one exchange, the latest request and its response, and the server sends *)
(* at most MaxItems items in all.                                          *)
(***************************************************************************)
LoopOperations == {"problems", "entities"}

\* requests.get, with the latest exchange alone kept on record.
HttpGetLatest(inst, endpoint, resp) ==
    /\ requests' = <<[self |-> inst, endpoint |-> endpoint]>>
    /\ responses' = <<resp>>

\* The responses of the server that carry at most n items.
LoopResponses(o, n) ==
    {resp \in ListResponses(o) : Len(Get(resp.json, ListKey(o))) <= n}

\* Lines 125-127, 209-211.
LoopFirstPage(o) ==
    /\ pc = "idle"
    /\ op' = o
    /\ \E resp \in LoopResponses(o, MaxItems) :
           /\ HttpGetLatest(dt_api, FirstEndpoint(o), resp)
           /\ PageResult(o, resp)
    /\ UNCHANGED <<cache, calls, aggVars, mainVars>>

\* One iteration of `while "nextPageKey" in response` (lines 129-132,
\* 213-216).
LoopNextPage ==
    /\ pc = "paging"
    /\ "nextPageKey" \in DOMAIN response
    /\ \E resp \in LoopResponses(op, MaxItems - Len(security_problems)) :
           /\ HttpGetLatest(dt_api,
                            NextEndpoint(op, response["nextPageKey"]), resp)
           /\ PageResult(op, resp)
    /\ UNCHANGED <<op, cache, calls, aggVars, mainVars>>

NextLoop ==
    \/ \E o \in LoopOperations : LoopFirstPage(o)
    \/ LoopNextPage
    \/ ReturnList

\* The interpreter always takes the next step of the one thread there is.
SpecLoop == InitClient /\ [][NextLoop]_vars /\ WF_vars(NextLoop)

(***************************************************************************)
(* Callers of get_security_problem_details on any client instance, any     *)
(* number of times (a retrying caller included).                           *)
(***************************************************************************)
CallDetails(inst, id) ==
    /\ pc = "idle"
    /\ Len(calls) < MaxCalls
    /\ \E resp \in DetailChoices(cache, inst, id) :
         LET d == get_security_problem_details(cache, inst, id, resp)
         IN  /\ IF d.fetched
                THEN HttpGet(inst, DetailEndpoint(id), resp)
                ELSE UNCHANGED <<requests, responses>>
             /\ cache' = d.cache
             /\ outcome' = d.result
             /\ calls' = Append(calls, [self |-> inst, id |-> id,
                                        result |-> d.result,
                                        fetched |-> d.fetched])
    /\ UNCHANGED <<pc, op, response, security_problems, vulnerabilities,
                   enriched_vulnerabilities, aggVars, mainVars>>

NextCache == \E inst \in Instances, id \in ProblemIds : CallDetails(inst, id)

SpecCache == InitClient /\ [][NextCache]_vars

(***************************************************************************)
(* Properties of the API client.                                           *)
(***************************************************************************)
RECURSIVE ConcatPages(_, _)
ConcatPages(rs, key) ==
    IF rs = <<>> THEN <<>>
    ELSE Get(Head(rs).json, key) \o ConcatPages(Tail(rs), key)

\* The pagination loop has just returned: every response so far is a page.
ListReturned ==
    \/ pc = "done" /\ op \in {"problems", "entities"}
    \/ /\ pc = "enrich"
       /\ \A i \in DOMAIN requests : requests[i].endpoint.id = "-"

ReturnedList == IF pc = "done" THEN outcome.value ELSE vulnerabilities

\* C1: when every page of a chain of n >= 1 pages answers 200 and only the
\* last one lacks a nextPageKey, the pagination loop returns exactly the
\* items of page 1, page 2, ..., page n, concatenated in that order.
C1_PaginationConcatenates ==
    ListReturned =>
        /\ Len(responses) >= 1
        /\ \A i \in DOMAIN responses :
               /\ responses[i].status = 200
               /\ ("nextPageKey" \in DOMAIN responses[i].json)
                      <=> (i < Len(responses))
        /\ (pc = "done" => outcome.kind = "returned")
        /\ ReturnedList = ConcatPages(responses, ListKey(op))

\* A three-page chain, each page with items, has been returned.
C1_Witness ==
    /\ pc = "done"
    /\ op = "problems"
    /\ Len(responses) = 3
    /\ \A i \in 1..3 : Get(responses[i].json, "securityProblems") # <<>>
    /\ Len(outcome.value) >= 4

\* C2: a failed request, on the first page, a later page or a detail call,
\* ends the whole operation at once with an error that carries the status
\* code, the reason phrase and the body of that response; the caller gets
\* no list, so nothing accumulated before the failure is returned.
C2_FailureFailsWholeOperation ==
    \A i \in DOMAIN responses :
        responses[i].status # 200 =>
            /\ i = Len(responses)
            /\ pc = "raised"
            /\ outcome = [kind |-> "raised",
                          status |-> responses[i].status,
                          reason |-> responses[i].reason,
                          content |-> responses[i].content]

\* A later page failed after an earlier page had delivered items.
C2_Witness ==
    /\ pc = "raised"
    /\ Len(responses) = 2
    /\ Get(responses[1].json, ListKey(op)) # <<>>
    /\ responses[2].status = 500
    /\ outcome.kind = "raised"

\* The GETs a client instance issued for the detail record of `id`.
DetailGets(inst, id) ==
    {i \in DOMAIN requests :
        requests[i] = [self |-> inst, endpoint |-> DetailEndpoint(id)]}

SameKey(j, k) == calls[j].self = calls[k].self /\ calls[j].id = calls[k].id

\* C3 as stated: at most one GET per identifier and instance, whatever the
\* number of calls.
C3_AtMostOneGet ==
    \A inst \in Instances, id \in ProblemIds :
        Cardinality(DetailGets(inst, id)) <= 1

\* C3 as amended: at most one GET per identifier and instance is answered
\* with 200; once a call has returned a result, every later call for the
\* same identifier on that instance issues no GET and returns that result;
\* a call with no earlier successful call on its own instance issues a GET,
\* whatever the other instances have cached.
C3_MemoizedAfterSuccess ==
    /\ \A inst \in Instances, id \in ProblemIds :
           Cardinality({i \in DetailGets(inst, id) :
                           responses[i].status = 200}) <= 1
    /\ \A j, k \in DOMAIN calls :
           (j < k /\ SameKey(j, k) /\ calls[j].result.kind = "returned") =>
               /\ ~calls[k].fetched
               /\ calls[k].result = calls[j].result
    /\ \A k \in DOMAIN calls :
           (\A j \in 1..(k - 1) :
                SameKey(j, k) => calls[j].result.kind = "raised")
               => calls[k].fetched

\* A hit on one instance, then the same identifier on the other instance.
C3_Witness ==
    /\ Len(calls) = 3
    /\ calls[1].self = dt_api /\ calls[1].fetched
    /\ calls[1].result.kind = "returned"
    /\ SameKey(1, 2) /\ ~calls[2].fetched
    /\ calls[3].self # dt_api /\ calls[3].id = calls[1].id
    /\ calls[3].fetched

(***************************************************************************)
(* The aggregation model (report_data.py).                                 *)
(*                                                                         *)
(* VulnerabilityData and Severity live in models/vulnerability.py: a       *)
(* vulnerability has a severity, a first-seen timestamp in epoch           *)
(* milliseconds, a set of affected host ids and a set of affected          *)
(* process-group ids.  A set is modelled with the order in which it is     *)
(* iterated: a sequence without repetition.  A vulnerability object is     *)
(* identified by its position in report.vulnerabilities.                   *)
(***************************************************************************)
KnownSeverities == {"CRITICAL", "HIGH", "MEDIUM", "LOW"}
Severity == KnownSeverities \cup {"NONE"}
Timestamps == {0, 1, 2}
HostSets == {<<>>, <<"H1">>, <<"H2">>, <<"H1", "H2">>, <<"H2", "H1">>}
ProcessGroupSets == {<<>>, <<"G1">>, <<"G2", "G1">>}

VulnerabilityData(sev, ts, hs, pgs) ==
    [severity |-> sev, first_seen_timestamp |-> ts, hosts |-> hs,
     process_groups |-> pgs]

\* start_time values, in microseconds since the epoch.
StartTimes == {999, 1000, 1500, 2000, 2001}

SeqsUpTo(S, n) == UNION {[1..k -> S] : k \in 0..n}

ReportData(start, vulns) == [start_time |-> start, vulnerabilities |-> vulns]

\* SeverityStats with one more vulnerability of the given severity: the
\* if/elif chain of lines 70-77, 106-113, 139-146.
CountSeverity_high_as_critical(stats, severity) ==
    CASE severity = "CRITICAL" -> [stats EXCEPT !.critical = @ + 1]
      [] severity = "HIGH" -> [stats EXCEPT !.critical = @ + 1]
      [] severity = "MEDIUM" -> [stats EXCEPT !.medium = @ + 1]
      [] severity = "LOW" -> [stats EXCEPT !.low = @ + 1]
      [] OTHER -> stats

CountSeverity(stats, severity) ==
    CASE severity = "CRITICAL" -> [stats EXCEPT !.critical = @ + 1]
      [] severity = "HIGH" -> [stats EXCEPT !.high = @ + 1]
      [] severity = "MEDIUM" -> [stats EXCEPT !.medium = @ + 1]
      [] severity = "LOW" -> [stats EXCEPT !.low = @ + 1]
      [] OTHER -> stats

SeverityStats == [critical |-> 0, high |-> 0, medium |-> 0, low |-> 0]

RECURSIVE SeverityLoop(_, _)
SeverityLoop(stats, vulns) ==
    IF vulns = <<>> THEN stats
    ELSE SeverityLoop(CountSeverity(stats, Head(vulns).severity), Tail(vulns))

overall_severity_stats(r) == SeverityLoop(SeverityStats, r.vulnerabilities)

\* int(start_time.timestamp() * 1000): microseconds to whole milliseconds,
\* truncated towards zero.
ToMillis(us) == IF us >= 0 THEN us \div 1000 ELSE -((-us) \div 1000)

IsNew_strict(vuln, start_ts) == vuln.first_seen_timestamp > start_ts

IsNew(vuln, start_ts) == vuln.first_seen_timestamp >= start_ts

RECURSIVE NewLoop(_, _)
NewLoop(vulns, start_ts) ==
    IF vulns = <<>> THEN <<>>
    ELSE (IF IsNew(Head(vulns), start_ts) THEN <<Head(vulns)>> ELSE <<>>)
             \o NewLoop(Tail(vulns), start_ts)

new_vulnerabilities(r) == NewLoop(r.vulnerabilities, ToMillis(r.start_time))

\* A bucket (HostAggregation / ProcessGroupAggregation); `vulnerabilities`
\* holds references, i.e. positions in report.vulnerabilities.
Aggregation(key) ==
    [id |-> key, name |-> key, severity_stats |-> SeverityStats,
     vulnerabilities |-> <<>>]

total_vulnerabilities(bucket) == Len(bucket.vulnerabilities)

\* The dict pg_map / host_map keeps its insertion order: a sequence of
\* buckets with at most one bucket per key.
Position(map, key) ==
    IF \E p \in DOMAIN map : map[p].id = key
    THEN CHOOSE p \in DOMAIN map : map[p].id = key
    ELSE 0

\* The bucket's list is overwritten instead of appended to.
AddToBucket_overwrite(map, key, i, vuln) ==
    LET m == IF Position(map, key) = 0 THEN Append(map, Aggregation(key))
                                        ELSE map
        p == Position(m, key)
    IN  [m EXCEPT ![p] =
            [@ EXCEPT !.vulnerabilities = <<i>>,
                      !.severity_stats = CountSeverity(@, vuln.severity)]]

\* The body of the inner loop (lines 96-113, 129-146).
AddToBucket(map, key, i, vuln) ==
    LET m == IF Position(map, key) = 0 THEN Append(map, Aggregation(key))
                                        ELSE map
        p == Position(m, key)
    IN  [m EXCEPT ![p] =
            [@ EXCEPT !.vulnerabilities = Append(@, i),
                      !.severity_stats = CountSeverity(@, vuln.severity)]]

\* Only the first key of a vulnerability gets it.
KeyLoop_first_only(map, keys, i, vuln) ==
    IF keys = <<>> THEN map ELSE AddToBucket(map, Head(keys), i, vuln)

\* for pg_id in vuln.process_groups / for host_id in vuln.hosts.
RECURSIVE KeyLoop(_, _, _, _)
KeyLoop(map, keys, i, vuln) ==
    IF keys = <<>> THEN map
    ELSE KeyLoop(AddToBucket(map, Head(keys), i, vuln), Tail(keys), i, vuln)

RECURSIVE VulnLoop(_, _, _, _)
VulnLoop(map, vulns, i, field) ==
    IF i > Len(vulns) THEN map
    ELSE VulnLoop(KeyLoop(map, vulns[i][field], i, vulns[i]), vulns, i + 1,
                  field)

\* sorted(values, key=total_vulnerabilities, reverse=True): a stable sort,
\* so buckets that compare equal keep the order they had.
RECURSIVE InsertDescending(_, _)
InsertDescending(sorted, bucket) ==
    IF sorted = <<>> THEN <<bucket>>
    ELSE IF total_vulnerabilities(Head(sorted)) >= total_vulnerabilities(bucket)
         THEN <<Head(sorted)>> \o InsertDescending(Tail(sorted), bucket)
         ELSE <<bucket>> \o sorted

RECURSIVE SortLoop(_, _)
SortLoop(sorted, rest) ==
    IF rest = <<>> THEN sorted
    ELSE SortLoop(InsertDescending(sorted, Head(rest)), Tail(rest))

Reverse(seq) == [p \in DOMAIN seq |-> seq[Len(seq) + 1 - p]]

\* An ascending stable sort, reversed: ties come out in reverse order.
sorted_reverse_ascending(map) == SortLoop(<<>>, Reverse(map))

sorted_reverse(map) == SortLoop(<<>>, map)

process_group_aggregations(r) ==
    sorted_reverse(VulnLoop(<<>>, r.vulnerabilities, 1, "process_groups"))

host_aggregations(r) ==
    sorted_reverse(VulnLoop(<<>>, r.vulnerabilities, 1, "hosts"))

\* HtmlReportGenerator.generate builds the ReportData object and reads its
\* four views once, in this order (html_generator.py lines 59-65).
Render ==
    /\ rpc = "constructed"
    /\ rpc' = "rendered"
    /\ severity_stats' = overall_severity_stats(report)
    /\ new_vulnerabilities_view' = new_vulnerabilities(report)
    /\ process_groups' = process_group_aggregations(report)
    /\ hosts' = host_aggregations(report)
    /\ UNCHANGED <<report, apiVars, mainVars>>

NextReport == Render

\* Reports whose vulnerabilities differ in severity and first-seen time.
StatsVulnerabilities ==
    {VulnerabilityData(sev, ts, <<>>, <<>>) : sev \in Severity, ts \in Timestamps}

InitStats ==
    /\ InitApi
    /\ IdleMain
    /\ report \in {ReportData(s, vs) :
                      s \in StartTimes,
                      vs \in SeqsUpTo(StatsVulnerabilities, MaxVulns + 1)}
    /\ rpc = "constructed"
    /\ severity_stats = NoStats
    /\ new_vulnerabilities_view = <<>>
    /\ process_groups = <<>>
    /\ hosts = <<>>

SpecStats == InitStats /\ [][NextReport]_vars

\* Reports whose vulnerabilities differ in severity, hosts and process
\* groups.
AggVulnerabilities ==
    {VulnerabilityData(sev, 1, hs, pgs) :
        sev \in Severity, hs \in HostSets, pgs \in ProcessGroupSets}

InitAgg ==
    /\ InitApi
    /\ IdleMain
    /\ report \in {ReportData(1000, vs) :
                      vs \in SeqsUpTo(AggVulnerabilities, MaxVulns)}
    /\ rpc = "constructed"
    /\ severity_stats = NoStats
    /\ new_vulnerabilities_view = <<>>
    /\ process_groups = <<>>
    /\ hosts = <<>>

SpecAgg == InitAgg /\ [][NextReport]_vars

(***************************************************************************)
(* Properties of the aggregation model.                                    *)
(***************************************************************************)
Rendered == rpc = "rendered"
Vulns == report.vulnerabilities
Range(seq) == {seq[p] : p \in DOMAIN seq}
WithSeverity(sev) == {i \in DOMAIN Vulns : Vulns[i].severity = sev}

\* C4: each of the four counters of overall_severity_stats is the number of
\* vulnerabilities of exactly that severity, so their sum is the number of
\* vulnerabilities with a known severity; any other severity counts nowhere.
C4_SeverityTotals ==
    Rendered =>
        /\ severity_stats.critical = Cardinality(WithSeverity("CRITICAL"))
        /\ severity_stats.high = Cardinality(WithSeverity("HIGH"))
        /\ severity_stats.medium = Cardinality(WithSeverity("MEDIUM"))
        /\ severity_stats.low = Cardinality(WithSeverity("LOW"))
        /\ severity_stats.critical + severity_stats.high
             + severity_stats.medium + severity_stats.low
           = Cardinality({i \in DOMAIN Vulns :
                             Vulns[i].severity \in KnownSeverities})

\* Known and unknown severities in one list.
C4_Witness ==
    /\ Rendered
    /\ Len(Vulns) = 3
    /\ WithSeverity("NONE") # {}
    /\ Cardinality(WithSeverity("HIGH")) = 2
    /\ severity_stats = [critical |-> 0, high |-> 2, medium |-> 0, low |-> 0]

AtOrAfterStart(v) == v.first_seen_timestamp >= ToMillis(report.start_time)
NewAt(start) == new_vulnerabilities(ReportData(start, Vulns))

\* C5: new_vulnerabilities is the sub-list, in the original order, of the
\* vulnerabilities first seen at or after the window start in milliseconds;
\* an earlier window start keeps every vulnerability of the result and a
\* later one adds none.
C5_NewVulnerabilities ==
    Rendered =>
        /\ new_vulnerabilities_view = SelectSeq(Vulns, AtOrAfterStart)
        /\ \A s \in StartTimes :
               /\ s <= report.start_time =>
                      /\ Range(new_vulnerabilities_view) \subseteq Range(NewAt(s))
                      /\ Len(new_vulnerabilities_view) <= Len(NewAt(s))
               /\ s >= report.start_time =>
                      /\ Range(NewAt(s)) \subseteq Range(new_vulnerabilities_view)
                      /\ Len(NewAt(s)) <= Len(new_vulnerabilities_view)

\* One vulnerability before the window start, one exactly at it, one after.
C5_Witness ==
    /\ Rendered
    /\ report.start_time = 1000
    /\ Len(Vulns) = 3
    /\ Vulns[1].first_seen_timestamp = 0
    /\ Vulns[2].first_seen_timestamp = 1
    /\ Vulns[3].first_seen_timestamp = 2
    /\ new_vulnerabilities_view = <<Vulns[2], Vulns[3]>>

RECURSIVE SumTotals(_)
SumTotals(buckets) ==
    IF buckets = <<>> THEN 0
    ELSE total_vulnerabilities(Head(buckets)) + SumTotals(Tail(buckets))

RECURSIVE SumKeys(_, _)
SumKeys(vulns, field) ==
    IF vulns = <<>> THEN 0
    ELSE Len(Head(vulns)[field]) + SumKeys(Tail(vulns), field)

EveryVulnOneHost == \A i \in DOMAIN Vulns : Len(Vulns[i].hosts) = 1
EveryVulnSomeHost == \A i \in DOMAIN Vulns : Len(Vulns[i].hosts) >= 1

\* C6 as stated: the totals of the host buckets add up to at least the
\* number of vulnerabilities, and to exactly that number if and only if
\* every vulnerability affects exactly one host.
C6_SumAtLeastCount ==
    Rendered =>
        /\ SumTotals(hosts) >= Len(Vulns)
        /\ (SumTotals(hosts) = Len(Vulns)) <=> EveryVulnOneHost

\* C6 as amended: the totals of the host buckets add up to the number of
\* (vulnerability, host) pairs, a vulnerability without hosts adding
\* nothing; when every vulnerability affects at least one host the sum is
\* at least the number of vulnerabilities, with equality if and only if
\* every vulnerability affects exactly one host.
C6_SumOfHostCounts ==
    Rendered =>
        /\ SumTotals(hosts) = SumKeys(Vulns, "hosts")
        /\ EveryVulnSomeHost =>
               /\ SumTotals(hosts) >= Len(Vulns)
               /\ (SumTotals(hosts) = Len(Vulns)) <=> EveryVulnOneHost

\* Every vulnerability has a host, one of them two: the sum exceeds the count.
C6_Witness ==
    /\ Rendered
    /\ Len(Vulns) = 2
    /\ EveryVulnSomeHost
    /\ ~EveryVulnOneHost
    /\ SumTotals(hosts) = 3

\* The keys of all vulnerabilities in the order the loops meet them.
RECURSIVE KeysInScanOrder(_, _)
KeysInScanOrder(vulns, field) ==
    IF vulns = <<>> THEN <<>>
    ELSE Head(vulns)[field] \o KeysInScanOrder(Tail(vulns), field)

FirstEncounter(key, field) ==
    LET scan == KeysInScanOrder(Vulns, field)
    IN  CHOOSE p \in DOMAIN scan :
            /\ scan[p] = key
            /\ \A q \in 1..(p - 1) : scan[q] # key

OrderedBuckets(buckets, field) ==
    \A p, q \in DOMAIN buckets :
        p < q =>
            /\ total_vulnerabilities(buckets[p])
                   >= total_vulnerabilities(buckets[q])
            /\ total_vulnerabilities(buckets[p])
                   = total_vulnerabilities(buckets[q])
               => FirstEncounter(buckets[p].id, field)
                      < FirstEncounter(buckets[q].id, field)

\* C7: both bucket lists are non-increasing in total_vulnerabilities, and
\* buckets with equal totals stand in the order in which the scan of the
\* vulnerability list first met their keys.
C7_DescendingStable ==
    Rendered =>
        /\ OrderedBuckets(hosts, "hosts")
        /\ OrderedBuckets(process_groups, "process_groups")

\* Two host buckets tie, met in the order H2, H1; the process-group buckets
\* change place because the one met later is larger.
C7_Witness ==
    /\ Rendered
    /\ Len(Vulns) = 2
    /\ Vulns[1].hosts = <<"H2", "H1">>
    /\ Len(hosts) = 2
    /\ hosts[1].id = "H2"
    /\ total_vulnerabilities(hosts[1]) = total_vulnerabilities(hosts[2])
    /\ Vulns[1].process_groups = <<"G2", "G1">>
    /\ Vulns[2].process_groups = <<"G1">>
    /\ process_groups[1].id = "G1"

KeysOf(field) == UNION {Range(Vulns[i][field]) : i \in DOMAIN Vulns}
Affected(key, field) == {i \in DOMAIN Vulns : key \in Range(Vulns[i][field])}

ExactBuckets(buckets, field) ==
    /\ {buckets[p].id : p \in DOMAIN buckets} = KeysOf(field)
    /\ Len(buckets) = Cardinality(KeysOf(field))
    /\ \A p \in DOMAIN buckets :
         LET b == buckets[p]
             members == Range(b.vulnerabilities)
             CountOf(sev) ==
                 Cardinality({i \in members : Vulns[i].severity = sev})
         IN  /\ members = Affected(b.id, field)
             /\ Len(b.vulnerabilities) = Cardinality(members)
             /\ b.name = b.id
             /\ b.severity_stats = [critical |-> CountOf("CRITICAL"),
                                    high |-> CountOf("HIGH"),
                                    medium |-> CountOf("MEDIUM"),
                                    low |-> CountOf("LOW")]

\* C8: there is exactly one bucket per identifier found in some key set; it
\* holds exactly the vulnerabilities whose key set contains the identifier,
\* each once; its display name is the identifier; its four counters count
\* its vulnerabilities of known severity.
C8_BucketsExact ==
    Rendered =>
        /\ ExactBuckets(hosts, "hosts")
        /\ ExactBuckets(process_groups, "process_groups")

\* A vulnerability on two hosts is in both host buckets; one host has two
\* vulnerabilities, one of them of unknown severity.
C8_Witness ==
    /\ Rendered
    /\ Len(Vulns) = 2
    /\ Vulns[1].hosts = <<"H1", "H2">>
    /\ Vulns[2].hosts = <<"H2">>
    /\ Vulns[1].severity = "HIGH"
    /\ Vulns[2].severity = "NONE"
    /\ Len(process_groups) = 2
    /\ hosts[1].id = "H2"
    /\ hosts[1].vulnerabilities = <<1, 2>>
    /\ hosts[1].severity_stats.high = 1

(***************************************************************************)
(* The orchestrator (main.py) and the renderers it calls.                  *)
(*                                                                         *)
(* The client calls of main() are taken whole: each either raises or       *)
(* returns its list.  The renderers act on the file system, a set of       *)
(* paths.                                                                  *)
(***************************************************************************)
ZoneNames == {"ops", "web team", "a/b"}
VulnCounts == {0, 1, 2}

\* mz_name.replace('/', '_').replace(' ', '_')
DirName(mz_name) ==
    CASE mz_name = "web team" -> "web_team"
      [] mz_name = "a/b" -> "a_b"
      [] OTHER -> mz_name

\* A path: its directory, and for a file the stem and suffix of its name.
Directory(parts) == [dir |-> parts, stem |-> <<"-", 0>>, suffix |-> "-"]

output_dir == Directory(<<"reports", "-">>)
mz_output_dir(mz_name) == Directory(<<"reports", DirName(mz_name)>>)

\* mz_output_dir / f"vulnerability_report_{timestamp}.<ext>"
ReportFile(mz_name, stamp, ext) ==
    [dir |-> mz_output_dir(mz_name).dir,
     stem |-> <<"vulnerability_report", stamp>>, suffix |-> ext]

\* Path.with_suffix: the last suffix is replaced.
with_suffix(path, ext) == [path EXCEPT !.suffix = ext]

html_file(mz_name, stamp) == ReportFile(mz_name, stamp, "html")
pdf_file(mz_name, stamp) == ReportFile(mz_name, stamp, "pdf")

\* `if not args.pdf_only` and `if not args.html_only` (lines 133, 139).
WantsPdf_copied(a) == ~a.pdf_only

WantsHtml(a) == ~a.pdf_only
WantsPdf(a) == ~a.html_only

\* The finally block of PdfReportGenerator.generate (lines 47-50).
finally_on_success_only(files, temp_html, exc) ==
    IF exc = "none" THEN files \ {temp_html} ELSE files

finally_cleanup(files, temp_html, exc) ==
    IF temp_html \in files THEN files \ {temp_html} ELSE files

DistinctSeqs(S, n) ==
    {q \in SeqsUpTo(S, n) : \A i, j \in DOMAIN q : i # j => q[i] # q[j]}

InitMain ==
    /\ InitApi
    /\ IdleAgg
    /\ mpc = "start"
    /\ args \in [html_only : BOOLEAN, pdf_only : BOOLEAN]
    /\ management_zones = <<>>
    /\ zi = 0
    /\ fetched = <<>>
    /\ fs = {}
    /\ now = 0
    /\ timestamp = 0
    /\ pending = "none"
    /\ error = "none"
    /\ events = <<>>

Event(kind, what) == [zone |-> zi, ev |-> kind, what |-> what]
Log(kind, what) == events' = Append(events, Event(kind, what))

\* The failure is noted and the loop goes on.
Caught_and_continue(exc) ==
    /\ mpc' = "loop"
    /\ error' = exc
    /\ Log("failure", exc)

\* An exception reaches the `except Exception` of main().
Caught(exc) ==
    /\ mpc' = "caught"
    /\ error' = exc
    /\ Log("failure", exc)

mz_name == management_zones[zi]

\* Lines 83-95: the zone listing and the output directory.
GetManagementZones ==
    /\ mpc = "start"
    /\ \/ /\ Caught("zones request failed")
          /\ UNCHANGED <<management_zones, fs, zi>>
       \/ \E zones \in DistinctSeqs(ZoneNames, MaxZones) :
            /\ management_zones' = zones
            /\ fs' = fs \cup {output_dir}
            /\ zi' = 1
            /\ mpc' = "loop"
            /\ UNCHANGED <<error, events>>
    /\ UNCHANGED <<args, fetched, now, timestamp, pending,
                   apiVars, aggVars>>

\* Lines 98-131: the next zone is fetched; an empty zone is skipped, for
\* any other the zone directory is made and the timestamp taken.
FetchZone ==
    /\ mpc = "loop"
    /\ zi <= Len(management_zones)
    /\ \/ /\ Caught("vulnerabilities request failed")
          /\ UNCHANGED <<fetched, fs, zi, timestamp>>
       \/ \E n \in VulnCounts :
            /\ fetched' = Append(fetched, n)
            /\ IF n = 0
               THEN /\ zi' = zi + 1
                    /\ Log("fetch", n)
                    /\ UNCHANGED <<mpc, fs, timestamp>>
               ELSE /\ fs' = fs \cup {mz_output_dir(mz_name)}
                    /\ timestamp' = now
                    /\ mpc' = "html"
                    /\ events' = events \o <<Event("fetch", n),
                                            Event("mkdir", mz_output_dir(mz_name))>>
                    /\ UNCHANGED zi
            /\ UNCHANGED error
    /\ UNCHANGED <<args, management_zones, now, pending,
                   apiVars, aggVars>>

\* Lines 133-137: HtmlReportGenerator.generate writes the file, or raises
\* before or while writing it.
HtmlReport ==
    /\ mpc = "html"
    /\ WantsHtml(args)
    /\ LET file == html_file(mz_name, timestamp)
       IN  \/ /\ fs' = fs \cup {file}
              /\ mpc' = "pdf"
              /\ Log("html", file)
              /\ UNCHANGED error
           \/ /\ fs' \in {fs, fs \cup {file}}
              /\ mpc' = "caught"
              /\ error' = "html rendering failed"
              /\ events' = events \o <<Event("html", file),
                                      Event("failure", "html rendering failed")>>
    /\ UNCHANGED <<args, management_zones, zi, fetched, now, timestamp, pending,
                   apiVars, aggVars>>

SkipHtml ==
    /\ mpc = "html"
    /\ ~WantsHtml(args)
    /\ mpc' = "pdf"
    /\ UNCHANGED <<args, management_zones, zi, fetched, fs, now, timestamp,
                   pending, error, events, apiVars, aggVars>>

\* Lines 139-141 and pdf_generator.py line 35: PdfReportGenerator.generate
\* is entered and renders the HTML to the temporary file.
PdfRenderHtml ==
    /\ mpc = "pdf"
    /\ WantsPdf(args)
    /\ LET file == pdf_file(mz_name, timestamp)
           temp_html == with_suffix(file, "temp.html")
       IN  \/ /\ fs' = fs \cup {temp_html}
              /\ mpc' = "pdf_convert"
              /\ Log("pdf", file)
              /\ UNCHANGED pending
           \/ /\ fs' \in {fs, fs \cup {temp_html}}
              /\ mpc' = "pdf_finally"
              /\ pending' = "html rendering failed"
              /\ events' = events \o <<Event("pdf", file),
                                      Event("raise", "html rendering failed")>>
    /\ UNCHANGED <<args, management_zones, zi, fetched, now, timestamp, error,
                   apiVars, aggVars>>

SkipPdf ==
    /\ mpc = "pdf"
    /\ ~WantsPdf(args)
    /\ mpc' = "loop"
    /\ zi' = zi + 1
    /\ UNCHANGED <<args, management_zones, fetched, fs, now, timestamp,
                   pending, error, events, apiVars, aggVars>>

\* The file generate() is writing: the last "pdf" event.
CurrentPdf ==
    LET p == CHOOSE p \in DOMAIN events :
                 /\ events[p].ev = "pdf"
                 /\ \A q \in DOMAIN events : q > p => events[q].ev # "pdf"
    IN  events[p].what

\* pdf_generator.py lines 38-43: the conversion by the browser engine.
PdfConvert ==
    /\ mpc = "pdf_convert"
    /\ \/ /\ fs' = fs \cup {CurrentPdf}
          /\ UNCHANGED <<pending, events>>
       \/ /\ fs' \in {fs, fs \cup {CurrentPdf}}
          /\ pending' = "pdf conversion failed"
          /\ Log("raise", "pdf conversion failed")
    /\ mpc' = "pdf_finally"
    /\ UNCHANGED <<args, management_zones, zi, fetched, now, timestamp, error,
                   apiVars, aggVars>>

\* pdf_generator.py lines 47-50, then generate() returns or the exception
\* goes on to main().
PdfFinally ==
    /\ mpc = "pdf_finally"
    /\ fs' = finally_cleanup(fs, with_suffix(CurrentPdf, "temp.html"), pending)
    /\ pending' = "none"
    /\ IF pending = "none"
       THEN /\ mpc' = "loop"
            /\ zi' = zi + 1
            /\ Log("pdf_exit", "returned")
            /\ UNCHANGED error
       ELSE /\ mpc' = "caught"
            /\ error' = pending
            /\ events' = events \o <<Event("pdf_exit", "raised"),
                                    Event("failure", pending)>>
            /\ UNCHANGED zi
    /\ UNCHANGED <<args, management_zones, fetched, now, timestamp,
                   apiVars, aggVars>>

\* Lines 145-147: the loop is over.
Completed ==
    /\ mpc = "loop"
    /\ zi > Len(management_zones)
    /\ mpc' = "exit0"
    /\ UNCHANGED <<args, management_zones, zi, fetched, fs, now, timestamp,
                   pending, error, events, apiVars, aggVars>>

\* Lines 149-151: logging.error, then sys.exit(1).
ExitOnError ==
    /\ mpc = "caught"
    /\ mpc' = "exit1"
    /\ Log("logged", error)
    /\ UNCHANGED <<args, management_zones, zi, fetched, fs, now, timestamp,
                   pending, error, apiVars, aggVars>>

\* Time passes while main() runs.
Tick ==
    /\ mpc \notin {"exit0", "exit1", "idle"}
    /\ now < MaxClock
    /\ now' = now + 1
    /\ UNCHANGED <<mpc, args, management_zones, zi, fetched, fs, timestamp,
                   pending, error, events, apiVars, aggVars>>

NextMain ==
    \/ GetManagementZones
    \/ FetchZone
    \/ HtmlReport
    \/ SkipHtml
    \/ PdfRenderHtml
    \/ SkipPdf
    \/ PdfConvert
    \/ PdfFinally
    \/ Completed
    \/ ExitOnError
    \/ Tick

SpecMain == InitMain /\ [][NextMain]_vars

(***************************************************************************)
(* Properties of the renderers and of the orchestrator.                    *)
(***************************************************************************)
EventsOf(z, kind) ==
    {p \in DOMAIN events : events[p].zone = z /\ events[p].ev = kind}

\* The file a call of PdfReportGenerator.generate was given: the "pdf"
\* event of the zone of its exit.
PdfOfExit(p) ==
    events[CHOOSE q \in EventsOf(events[p].zone, "pdf") : q < p].what

RaisedInside(p) ==
    {q \in EventsOf(events[p].zone, "raise") : q < p}

\* C9: once PdfReportGenerator.generate has returned or raised, the
\* temporary HTML file of that call does not exist, whether the conversion
\* succeeded, the HTML renderer failed or the conversion failed; a call
\* that failed inside ends by raising that same error, which main()
\* receives, and a call without failure returns.
C9_TempFileRemoved ==
    \A p \in DOMAIN events :
        events[p].ev = "pdf_exit" =>
            /\ with_suffix(PdfOfExit(p), "temp.html") \notin fs
            /\ (events[p].what = "returned") <=> (RaisedInside(p) = {})
            /\ events[p].what = "raised" =>
                   /\ mpc \in {"caught", "exit1"}
                   /\ \A q \in RaisedInside(p) : error = events[q].what

\* The conversion engine failed with the temporary file on disk, and the
\* error reached main().
C9_Witness ==
    /\ mpc = "exit1"
    /\ error = "pdf conversion failed"
    /\ \E p \in DOMAIN events :
           /\ events[p].ev = "pdf_exit"
           /\ events[p].what = "raised"
           /\ PdfOfExit(p) \in fs

\* The loop body of zone z is past its HTML step / past its PDF step.
PastHtml(z) == z < zi \/ mpc # "html"
PastPdf(z) == z < zi \/ mpc \notin {"html", "pdf"}

\* The HTML renderer of zone z raised, which ended the run there.
HtmlRaised(z) ==
    \E p \in EventsOf(z, "html") :
        /\ p + 1 \in DOMAIN events
        /\ events[p + 1].ev = "failure"

\* C10: a zone whose fetched list is empty gets no subdirectory, no file
\* and no renderer call.  A zone with vulnerabilities gets its
\* subdirectory first; then the HTML renderer is called if and only if
\* --pdf-only is not set, and then the PDF renderer if and only if
\* --html-only is not set (it is not reached when the HTML renderer raised
\* and so ended the run); the PDF renderer comes after the HTML renderer
\* and both files carry the same timestamp.
C10_ZoneReports ==
    \A z \in DOMAIN fetched :
        LET mk == EventsOf(z, "mkdir")
            h == EventsOf(z, "html")
            pd == EventsOf(z, "pdf")
            zone_dir == mz_output_dir(management_zones[z])
        IN  /\ fetched[z] = 0 =>
                /\ mk = {} /\ h = {} /\ pd = {}
                /\ \A f \in fs : f.dir # zone_dir.dir
            /\ fetched[z] > 0 =>
                /\ Cardinality(mk) = 1
                /\ zone_dir \in fs
                /\ Cardinality(h) <= 1
                /\ Cardinality(pd) <= 1
                /\ h # {} => /\ ~args.pdf_only
                             /\ \A p \in h, m \in mk : m < p
                /\ pd # {} => /\ ~args.html_only
                              /\ \A p \in pd, m \in mk : m < p
                              /\ ~args.pdf_only => h # {}
                /\ \A p \in pd, q \in h :
                       /\ q < p
                       /\ events[p].what.dir = zone_dir.dir
                       /\ events[q].what.dir = zone_dir.dir
                       /\ events[p].what.stem = events[q].what.stem
                /\ PastHtml(z) => ((h # {}) <=> ~args.pdf_only)
                /\ (PastPdf(z) /\ ~HtmlRaised(z)) =>
                       ((pd # {}) <=> ~args.html_only)

\* A run over an empty zone and a zone with vulnerabilities, both renderers
\* wanted, the clock having moved on after the timestamp was taken.
C10_Witness ==
    /\ mpc = "exit0"
    /\ args = NoArgs
    /\ Len(fetched) = 2
    /\ fetched[1] = 0
    /\ fetched[2] > 0
    /\ timestamp = 0
    /\ now = 1
    /\ html_file(management_zones[2], 0) \in fs
    /\ pdf_file(management_zones[2], 0) \in fs

Failures == {p \in DOMAIN events : events[p].ev = "failure"}

ZoneDirs(z) == mz_output_dir(management_zones[z]).dir

\* C11: the zones are handled one after another in the order of the zone
\* listing, nothing is done twice, and the first failure, in zone i, is the
\* last thing the run does but for logging that error and exiting with
\* status 1: no request and no file for a later zone.  A run exits with
\* status 1 only after a failure, and a run that ends without one has gone
\* through every zone.
C11_FirstFailureEndsRun ==
    /\ \A p, q \in DOMAIN events :
           p < q => events[p].zone <= events[q].zone
    /\ \A p \in DOMAIN events : events[p].zone <= zi
    /\ Len(fetched) <= Len(management_zones)
    /\ \A z \in DOMAIN management_zones :
           /\ Cardinality(EventsOf(z, "fetch")) <= 1
           /\ Cardinality(EventsOf(z, "html")) <= 1
           /\ Cardinality(EventsOf(z, "pdf")) <= 1
           /\ EventsOf(z, "fetch") # {} <=> z \in DOMAIN fetched
    /\ \A p \in Failures :
           /\ mpc \in {"caught", "exit1"}
           /\ error = events[p].what
           /\ zi = events[p].zone
           /\ \A q \in DOMAIN events :
                  q > p => /\ events[q].ev = "logged"
                           /\ events[q].what = events[p].what
                           /\ mpc = "exit1"
           /\ \A z \in DOMAIN management_zones :
                  z > events[p].zone =>
                      /\ z \notin DOMAIN fetched
                      /\ \A f \in fs : f.dir # ZoneDirs(z)
    /\ mpc = "exit1" =>
           /\ Failures # {}
           /\ events[Len(events)].ev = "logged"
    /\ mpc = "exit0" =>
           /\ Failures = {}
           /\ Len(fetched) = Len(management_zones)

\* The HTML renderer failed in the first of two zones and the run ended.
C11_Witness ==
    /\ mpc = "exit1"
    /\ error = "html rendering failed"
    /\ Len(management_zones) = 2
    /\ zi = 1
    /\ Len(fetched) = 1
    /\ EventsOf(1, "pdf") = {}

\* The last GET ended in the RuntimeError the caller holds.
RaisedAt(i) ==
    /\ i = Len(responses)
    /\ pc = "raised"
    /\ outcome = RuntimeError(responses[i])

\* The parsed JSON of response i is what query_api handed to its caller:
\* the page the loop holds, or the detail record stored for the identifier.
ParsedAt(i) ==
    /\ (i = Len(responses) /\ pc = "paging") => response = responses[i].json
    /\ requests[i].endpoint.id # "-" =>
           /\ <<dt_api, requests[i].endpoint.id>> \in DOMAIN cache
           /\ cache[<<dt_api, requests[i].endpoint.id>>] = responses[i].json

\* The claim as stated: query_api raises exactly when the status is outside
\* the 2xx class.
C12_RaisesExactlyOnNon2xx ==
    \A i \in DOMAIN responses :
        (responses[i].status \notin 200..299) <=> RaisedAt(i)

\* C12: query_api raises the API request error exactly when the response
\* status is not 200, carrying status, reason and body; every response
\* with status 200 is returned to the caller as parsed JSON.  A success
\* status other than 200, such as 204, raises too.
C12_RaisesExactlyOnNon200 ==
    \A i \in DOMAIN responses :
        /\ (responses[i].status # OK) <=> RaisedAt(i)
        /\ responses[i].status = OK => ParsedAt(i)

\* A follow-up page answered with 204 No Content ended the operation.
C12_Witness ==
    /\ pc = "raised"
    /\ Len(responses) > 1
    /\ responses[Len(responses)].status = 204
    /\ outcome.status = 204

\* The identifiers of the summaries enriched so far.
EnrichedIds ==
    {vulnerabilities[i].securityProblemId :
        i \in DOMAIN enriched_vulnerabilities}

\* C13: get_vulnerabilities_by_management_zone returns a list of the length
\* and order of the summary list; element i is the detail record that the
\* detail request for the securityProblemId of summary i was answered with,
\* not the summary; an identifier that occurs several times has its detail
\* record at each of its positions and exactly one detail request.
C13_EnrichedInSummaryOrder ==
    (op = "zone" /\ pc \in {"enrich", "done"}) =>
        /\ Len(enriched_vulnerabilities) <= Len(vulnerabilities)
        /\ pc = "done" =>
               /\ outcome = Returned(enriched_vulnerabilities)
               /\ Len(outcome.value) = Len(vulnerabilities)
        /\ \A i \in DOMAIN enriched_vulnerabilities :
               LET id == vulnerabilities[i].securityProblemId
               IN  /\ Cardinality(DetailGets(dt_api, id)) = 1
                   /\ \A g \in DetailGets(dt_api, id) :
                          /\ responses[g].status = OK
                          /\ enriched_vulnerabilities[i] = responses[g].json
                   /\ enriched_vulnerabilities[i].securityProblemId = id
                   /\ enriched_vulnerabilities[i] # vulnerabilities[i]
        /\ \A id \in ProblemIds \ EnrichedIds : DetailGets(dt_api, id) = {}

\* One identifier at two positions of the summary list, both holding the
\* record of its one detail request, next to another identifier.
C13_Witness ==
    /\ op = "zone"
    /\ pc = "done"
    /\ Len(outcome.value) = 3
    /\ vulnerabilities[1].securityProblemId = "P1"
    /\ vulnerabilities[2].securityProblemId = "P2"
    /\ vulnerabilities[3].securityProblemId = "P1"
    /\ outcome.value[1] = outcome.value[3]
    /\ Cardinality(DetailGets(dt_api, "P1")) = 1

\* The claim's termination: every run of a pagination loop ends, returning
\* or raising, whatever the server sends.
C14_AlwaysTerminates == <>(pc \in {"done", "raised"})

\* The loop holds the page that the latest GET was answered with.
LoopHoldsLatest ==
    pc = "paging" =>
        /\ Len(requests) = 1
        /\ Len(responses) = 1
        /\ requests[1].self = dt_api
        /\ requests[1].endpoint.path = ListPath(op)
        /\ responses[1].status = OK
        /\ response = responses[1].json

\* A round of the loop issues one GET, and a follow-up GET carries the
\* cursor of the response just before it.
FollowsCursor ==
    (pc = "paging" /\ pc' \in {"paging", "raised"}) =>
        /\ "nextPageKey" \in DOMAIN response
        /\ Len(requests') = 1
        /\ requests'[1].endpoint.path = ListPath(op)
        /\ requests'[1].endpoint.nextPageKey = response["nextPageKey"]

\* The loop returns at a response without a cursor and nowhere else, with
\* no GET after that response.
StopsAtLastPage ==
    /\ (pc # "done" /\ pc' = "done") =>
           /\ pc = "paging"
           /\ "nextPageKey" \notin DOMAIN response
           /\ outcome' = Returned(security_problems)
    /\ (pc = "paging" /\ "nextPageKey" \notin DOMAIN response) =>
           /\ pc' = "done"
           /\ UNCHANGED <<requests, responses>>

\* C14: while the server answers 200, a pagination loop issues one GET per
\* page, each follow-up GET carrying the nextPageKey of the response just
\* before it; it stops at the first response without a nextPageKey and
\* then returns.  It ends only when the server sends such a response or a
\* status other than 200: termination is owed to the server, and the loop
\* runs on for as long as cursors keep coming.
C14_FollowsCursorsUntilAbsent ==
    /\ []LoopHoldsLatest
    /\ [][FollowsCursor /\ StopsAtLastPage]_vars
    /\ (pc = "paging" /\ "nextPageKey" \notin DOMAIN response) ~> (pc = "done")
    /\ [](pc \in {"done", "raised"} =>
              \/ pc = "raised" /\ responses[1].status # OK
              \/ pc = "done" /\ "nextPageKey" \notin DOMAIN responses[1].json)

\* The loop returned two items after a follow-up GET that carried a cursor.
C14_Witness ==
    /\ pc = "done"
    /\ op \in LoopOperations
    /\ Len(requests) = 1
    /\ requests[1].endpoint.nextPageKey \in PageKeys
    /\ Len(outcome.value) = MaxItems

====
